---- MODULE Spec2Model ----
(***************************************************************************)
(* BlockBook backend coordinator (src/js/backend/BlockBook.js).            *)
(*                                                                         *)
(* The coordinator owns one backend connection (blockchain) and one        *)
(* discovery engine (discovery).  Both are collaborators from the          *)
(* hd-wallet package: the model gives them the behaviour of the interface  *)
(* the specification states for them, and leaves free whatever the         *)
(* interface leaves free (when the engine emits, completes or fails, what  *)
(* the backend answers).  JavaScript is run-to-completion: every action    *)
(* below is one synchronous block of the source, an async function being   *)
(* cut at its await.                                                       *)
(***************************************************************************)
EXTENDS Integers, Sequences, FiniteSets, TLC

\* ------------------------------------------------------------------ bounds
MaxUrls == 1           \* longest endpoint list given to the constructor
MaxErrors == 2         \* errors the backend error channel emits
MaxProgress == 2       \* progress events one discovery stream emits
MaxDisposerCalls == 1  \* caller invocations of one disposer / stream dispose
MaxCalls == 1          \* invocations of the gated operations
MaxIds == 2            \* longest id list given to loadTransactions
MaxCoinCalls == 2      \* loadCoinInfo invocations

\* ------------------------------------------------------------------ values
Errors == {"e1", "e2"}                 \* errors of the backend error channel
NoError == "none"                      \* an unset (undefined) error
BACKEND_NO_URL == "BACKEND_NO_URL"     \* ERROR.BACKEND_NO_URL
Interrupted == "Interrupted by user"   \* new Error('Interrupted by user')
EngineFailure == "discovery failure"   \* a failure of the engine's own
BackendRejection == "backend rejection" \* a rejected backend request
ParseFailure == "fromHex failure"      \* BitcoinJsTransaction.fromHex throws
Urls == {"u1"}
CoinInfos == {"btc", "zec"}            \* the network descriptors
NoCoin == "null"                       \* no descriptor (null)
Hashes == {"h-btc", "h-zec", "h-other"} \* genesis hashes a backend reports
UnknownNetwork == "Failed to load coinInfo" \* new Error('Failed to load coinInfo ' + hash)

RECURSIVE SeqsUpTo(_, _)
SeqsUpTo(S, n) ==
    IF n = 0 THEN {<<>>}
    ELSE LET shorter == SeqsUpTo(S, n - 1)
         IN  shorter \cup {Append(q, x) : q \in {t \in shorter : Len(t) = n - 1}, x \in S}

VARIABLES
    state,      \* "new" before the constructor ran, then "ready" or "threw"
    args,       \* options.urls the constructor was called with
    options,    \* this.options.urls (<<>> while unset)
    ctorThrown, \* what the constructor threw
    created,    \* collaborators the constructor created
    error,      \* this.error
    listeners,  \* handlers attached to blockchain.errors.values, in order
    emitted,    \* errors the channel has emitted so far, in order
    sessions,   \* loadAccountInfo invocations and their discovery sessions
    streams,    \* monitorAccountActivity invocations and their streams
    ops,        \* single chain-data invocations
    batches,    \* loadTransactions invocations
    requests,   \* requests sent to the backend connection
    coins,      \* loadCoinInfo invocations
    zcash,      \* this.blockchain.zcash ("unset" until written)
    stored,     \* the descriptor whose flag was written last
    disposals   \* whether dispose() has been called

vars == <<state, args, options, ctorThrown, created, error, listeners, emitted,
          sessions, streams, ops, batches, requests, coins, zcash, stored,
          disposals>>

ctorVars == <<state, args, options, ctorThrown, created>>

coinVars == <<coins, zcash, stored>>

\* The invocations of gated operations made so far.
Invoked == Len(sessions) + Len(streams) + Len(ops) + Len(batches)

\* The ids handed to loadTransactions so far, over all its invocations.
RECURSIVE Fetched(_)
Fetched(q) == IF q = <<>> THEN 0 ELSE Len(Head(q).ids) + Fetched(Tail(q))

\* The id lists loadTransactions is called with: ids 1..n.
IdLists == { [j \in 1..n |-> j] : n \in 0..MaxIds }

\* ------------------------------------------------------------- constructor
\* Mutant of NoUrl: the length test is off by one.
NoUrlOffByOne(u) == Len(u) < 0

\* options.urls.length < 1
NoUrl(u) == Len(u) < 1

\* this.blockchain.errors.values.attach(this._setError.bind(this))
SetErrorHandler == [kind |-> "setError", id |-> 0]

\* new BlockBook(options)
Constructor(u) ==
    /\ state = "new"
    /\ args' = u
    /\ IF NoUrl(u)
         THEN /\ state' = "threw"
              /\ ctorThrown' = BACKEND_NO_URL
              /\ UNCHANGED <<options, created, listeners>>
         ELSE /\ state' = "ready"
              /\ options' = u
              /\ created' = {"worker", "blockchain", "filePromise", "discovery"}
              /\ listeners' = Append(listeners, SetErrorHandler)
              /\ UNCHANGED ctorThrown
    /\ UNCHANGED <<error, emitted, sessions, streams, ops, batches, requests, coinVars, disposals>>

\* ---------------------------------------------------------- the error guard
\* Mutant of SetError: the handler passes no error on (this._setError()).
SetErrorUndefined(old, e) == NoError

\* _setError(error) { this.error = error; }
SetError(old, e) == e

\* if (this.error) { throw this.error; }
Fatal(err) == err # NoError

\* ------------------------------------------------- discovery engine sessions
\* A session the engine started: its result future (ending), its progress
\* stream, and what the caller has seen of it.
NewSession(n) ==
    [ pc |-> "await",            \* the call: "await", "returned", "failed"
      started |-> TRUE,          \* discoverAccount was called
      seen |-> n,                \* errors emitted before the invocation
      ending |-> "pending",      \* discovery.ending: pending/resolved/rejected
      reason |-> NoError,        \* the rejection reason of discovery.ending
      engineDone |-> FALSE,      \* the engine has completed or failed
      streamDisposed |-> FALSE,  \* discovery.stream.dispose() was called
      emittedP |-> 0,            \* progress events the stream has emitted
      relayed |-> <<>>,          \* events handed to the progress callback
      disposerSet |-> 0,         \* calls of setDisposer
      userCalls |-> 0,           \* caller invocations of the disposer
      cancels |-> 0,             \* invocations of discovery.dispose
      teardowns |-> 0,           \* teardowns the engine performed
      thrown |-> NoError,        \* what the call failed with
      openErr |-> NoError,       \* first backend error emitted while open
      userOpen |-> FALSE,        \* the disposer was invoked while open
      lateCancel |-> FALSE,      \* the error handler ran after the session ended
      relayedAfterEnd |-> FALSE, \* progress ran after the terminal event
      relayedAfterUser |-> FALSE ]

\* Mutant of SetDisposer: the disposer is never handed to the caller.
SetDisposerNever(s) == s

\* setDisposer(...): the caller's sink receives the disposer.
SetDisposer(s) == [ s EXCEPT !.disposerSet = @ + 1 ]

\* Mutant of RejectedSession: the sink is called before the guard throws.
RejectedSessionRegisters(err, n) ==
    SetDisposer([ NewSession(n) EXCEPT !.pc = "failed", !.started = FALSE,
                                       !.thrown = err ])

\* A loadAccountInfo call the guard rejected: nothing was started.
RejectedSession(err, n) ==
    [ NewSession(n) EXCEPT !.pc = "failed", !.started = FALSE, !.thrown = err ]

\* discovery.stream.dispose(): the progress stream is stopped; disposing it
\* again does nothing.
ProgressStreamDispose(s) ==
    IF s.streamDisposed
      THEN s
      ELSE [ s EXCEPT !.streamDisposed = TRUE, !.teardowns = @ + 1 ]

\* discovery.dispose(reason): the session is cancelled.  Its result future
\* fails with the reason unless it is settled already (a promise settles
\* once), and its progress stream is disposed.
DiscoveryDispose(s, r) ==
    LET t == ProgressStreamDispose(s)
    IN  IF s.ending = "pending"
          THEN [ t EXCEPT !.cancels = @ + 1, !.ending = "rejected", !.reason = r ]
          ELSE [ t EXCEPT !.cancels = @ + 1 ]

\* Mutant of Relay: the event is not handed to the callback.
RelayDrop(s, ev) == s

\* discovery.stream.values.attach(status => { progress(status); })
Relay(s, ev) ==
    [ s EXCEPT !.relayed = Append(@, ev),
               !.relayedAfterEnd = @ \/ s.pc # "await",
               !.relayedAfterUser = @ \/ s.userOpen ]

\* Mutant of SessionErrorHandler: the handler does not cancel the session.
SessionErrorHandlerIdle(s, e) == s

\* this.blockchain.errors.values.attach((e) => { discovery.dispose(e); })
SessionErrorHandler(s, e) ==
    [ DiscoveryDispose(s, e) EXCEPT !.lateCancel = @ \/ s.ending # "pending" ]

\* Mutant of Disposer: the disposer cancels without the reason.
DisposerNoReason(s) ==
    [ DiscoveryDispose(s, NoError) EXCEPT
        !.userCalls = @ + 1, !.userOpen = @ \/ s.ending = "pending" ]

\* setDisposer(() => discovery.dispose(new Error('Interrupted by user')))
Disposer(s) ==
    [ DiscoveryDispose(s, Interrupted) EXCEPT
        !.userCalls = @ + 1, !.userOpen = @ \/ s.ending = "pending" ]

\* ------------------------------------------------------------ activity streams
NewStream(n) ==
    [ started |-> TRUE, thrown |-> NoError, seen |-> n,
      disposed |-> FALSE,   \* the stream has been torn down
      disposeCalls |-> 0,   \* invocations of res.dispose()
      callerCalls |-> 0,    \* of which by the caller
      teardowns |-> 0 ]     \* teardowns performed

RejectedStream(err, n) ==
    [ NewStream(n) EXCEPT !.started = FALSE, !.thrown = err ]

\* Mutant of StreamDispose: every call tears the stream down again.
StreamDisposeAgain(m) ==
    [ m EXCEPT !.disposeCalls = @ + 1, !.disposed = TRUE, !.teardowns = @ + 1 ]

\* res.dispose(): safe to call on a stream that is already disposed.
StreamDispose(m) ==
    IF m.disposed
      THEN [ m EXCEPT !.disposeCalls = @ + 1 ]
      ELSE [ m EXCEPT !.disposeCalls = @ + 1, !.disposed = TRUE,
                      !.teardowns = @ + 1 ]

\* Mutant of StreamErrorHandler: the handler leaves the stream open.
StreamErrorHandlerIdle(m) == m

\* this.blockchain.errors.values.attach(() => { res.dispose(); })
StreamErrorHandler(m) == StreamDispose(m)

\* ------------------------------------------------------ the error channel
\* One handler of blockchain.errors.values, called with the emitted error.
RunHandler(h, st, e) ==
    CASE h.kind = "setError" ->
           [ st EXCEPT !.error = SetError(@, e) ]
      [] h.kind = "discovery" ->
           [ st EXCEPT !.sessions[h.id] = SessionErrorHandler(@, e) ]
      [] h.kind = "monitor" ->
           [ st EXCEPT !.streams[h.id] = StreamErrorHandler(@) ]

\* Emitter.emit: every attached handler, in attach order.
RECURSIVE Emit(_, _, _)
Emit(ls, st, e) ==
    IF ls = <<>> THEN st
    ELSE Emit(Tail(ls), RunHandler(Head(ls), st, e), e)

\* What every open session and every pending request saw of the emission.
MarkOpen(ss, e) ==
    [ i \in DOMAIN ss |->
        IF ss[i].started /\ ss[i].ending = "pending" /\ ss[i].openErr = NoError
          THEN [ ss[i] EXCEPT !.openErr = e ] ELSE ss[i] ]

MarkPending(os) ==
    [ i \in DOMAIN os |->
        IF os[i].pc = "await" THEN [ os[i] EXCEPT !.errDuring = TRUE ] ELSE os[i] ]

\* The backend connection emits e on blockchain.errors.
BackendError(e) ==
    /\ state = "ready"
    /\ Len(emitted) < MaxErrors
    /\ LET st == Emit(listeners,
                      [ error |-> error, sessions |-> MarkOpen(sessions, e),
                        streams |-> streams ], e)
       IN  /\ error' = st.error
           /\ sessions' = st.sessions
           /\ streams' = st.streams
    /\ emitted' = Append(emitted, e)
    /\ ops' = MarkPending(ops)
    /\ batches' = MarkPending(batches)
    /\ UNCHANGED <<ctorVars, listeners, requests, coinVars, disposals>>

\* ----------------------------------------------------------- loadAccountInfo
\* Lines 99-114: the guard, the session, the disposer, the two handlers.
LoadAccountInfo ==
    /\ state = "ready"
    /\ Invoked < MaxCalls
    /\ IF Fatal(error)
         THEN /\ sessions' = Append(sessions, RejectedSession(error, Len(emitted)))
              /\ UNCHANGED listeners
         ELSE /\ sessions' = Append(sessions, SetDisposer(NewSession(Len(emitted))))
              /\ listeners' = Append(listeners,
                                     [kind |-> "discovery", id |-> Len(sessions) + 1])
    /\ UNCHANGED <<ctorVars, error, emitted, streams, ops, batches, requests, coinVars, disposals>>

\* The engine's progress stream emits its next event.
EngineProgress(i) ==
    /\ sessions[i].started
    /\ ~sessions[i].streamDisposed
    /\ sessions[i].emittedP < MaxProgress
    /\ sessions' = [ sessions EXCEPT
                       ![i] = Relay([ @ EXCEPT !.emittedP = @ + 1 ],
                                    sessions[i].emittedP + 1) ]
    /\ UNCHANGED <<ctorVars, error, listeners, emitted, streams, ops, batches, requests, coinVars, disposals>>

\* The engine finishes the discovery: with a snapshot, or with a failure.
EngineEnd(i, ok) ==
    /\ sessions[i].started
    /\ ~sessions[i].engineDone
    /\ sessions' = [ sessions EXCEPT ![i] =
           IF @.ending # "pending"
             THEN [ @ EXCEPT !.engineDone = TRUE ]
             ELSE IF ok
               THEN [ @ EXCEPT !.engineDone = TRUE, !.ending = "resolved" ]
               ELSE [ @ EXCEPT !.engineDone = TRUE, !.ending = "rejected",
                               !.reason = EngineFailure ] ]
    /\ UNCHANGED <<ctorVars, error, listeners, emitted, streams, ops, batches, requests, coinVars, disposals>>

\* The caller invokes the disposer it was handed.
CallDisposer(i) ==
    /\ sessions[i].started
    /\ sessions[i].disposerSet >= 1
    /\ sessions[i].userCalls < MaxDisposerCalls
    /\ sessions' = [ sessions EXCEPT ![i] = Disposer(@) ]
    /\ UNCHANGED <<ctorVars, error, listeners, emitted, streams, ops, batches, requests, coinVars, disposals>>

\* Mutant of AfterEnding: a cancellation that came after the completion
\* turns the outcome into a failure.
AfterEndingCancelWins(s) ==
    IF s.ending = "resolved" /\ s.cancels = 0
      THEN [ ProgressStreamDispose(s) EXCEPT !.pc = "returned" ]
      ELSE [ s EXCEPT !.pc = "failed", !.thrown = Interrupted ]

\* Mutant of AfterEnding: the progress stream is left open on return.
AfterEndingNoDispose(s) ==
    IF s.ending = "resolved"
      THEN [ s EXCEPT !.pc = "returned" ]
      ELSE [ s EXCEPT !.pc = "failed", !.thrown = s.reason ]

\* Lines 114-117: await discovery.ending; discovery.stream.dispose(); return.
AfterEnding(s) ==
    IF s.ending = "resolved"
      THEN [ ProgressStreamDispose(s) EXCEPT !.pc = "returned" ]
      ELSE [ s EXCEPT !.pc = "failed", !.thrown = s.reason ]

ResumeLoadAccountInfo(i) ==
    /\ sessions[i].pc = "await"
    /\ sessions[i].ending # "pending"
    /\ sessions' = [ sessions EXCEPT ![i] = AfterEnding(@) ]
    /\ UNCHANGED <<ctorVars, error, listeners, emitted, streams, ops, batches, requests, coinVars, disposals>>

\* ----------------------------------------------------- monitorAccountActivity
MonitorAccountActivity ==
    /\ state = "ready"
    /\ Invoked < MaxCalls
    /\ IF Fatal(error)
         THEN /\ streams' = Append(streams, RejectedStream(error, Len(emitted)))
              /\ UNCHANGED listeners
         ELSE /\ streams' = Append(streams, NewStream(Len(emitted)))
              /\ listeners' = Append(listeners,
                                     [kind |-> "monitor", id |-> Len(streams) + 1])
    /\ UNCHANGED <<ctorVars, error, emitted, sessions, ops, batches, requests, coinVars, disposals>>

\* The caller disposes the stream it was returned.
CallerDisposeStream(i) ==
    /\ streams[i].started
    /\ streams[i].callerCalls < MaxDisposerCalls
    /\ streams' = [ streams EXCEPT ![i] = [ StreamDispose(@) EXCEPT !.callerCalls = @ + 1 ] ]
    /\ UNCHANGED <<ctorVars, error, listeners, emitted, sessions, ops, batches, requests, coinVars, disposals>>

\* ------------------------------------------------------------ chain data
\* One invocation of loadTransaction, loadCurrentHeight, sendTransaction or
\* sendTransactionHex: the guard, then one request to the backend.
GuardedCall(kind, err, n) ==
    IF Fatal(err)
      THEN [ kind |-> kind, pc |-> "failed", thrown |-> err, seen |-> n,
             sent |-> 0, errDuring |-> FALSE ]
      ELSE [ kind |-> kind, pc |-> "await", thrown |-> NoError, seen |-> n,
             sent |-> 1, errDuring |-> FALSE ]

\* loadTransaction(id): lookupTransaction, then BitcoinJsTransaction.fromHex
LoadTransaction ==
    /\ state = "ready"
    /\ Invoked < MaxCalls
    /\ ops' = Append(ops, GuardedCall("loadTransaction", error, Len(emitted)))
    /\ requests' = requests + ops'[Len(ops')].sent
    /\ UNCHANGED <<ctorVars, error, listeners, emitted, sessions, streams, batches, coinVars, disposals>>

\* loadCurrentHeight(): lookupSyncStatus
LoadCurrentHeight ==
    /\ state = "ready"
    /\ Invoked < MaxCalls
    /\ ops' = Append(ops, GuardedCall("loadCurrentHeight", error, Len(emitted)))
    /\ requests' = requests + ops'[Len(ops')].sent
    /\ UNCHANGED <<ctorVars, error, listeners, emitted, sessions, streams, batches, coinVars, disposals>>

\* sendTransaction(txBytes): blockchain.sendTransaction
SendTransaction ==
    /\ state = "ready"
    /\ Invoked < MaxCalls
    /\ ops' = Append(ops, GuardedCall("sendTransaction", error, Len(emitted)))
    /\ requests' = requests + ops'[Len(ops')].sent
    /\ UNCHANGED <<ctorVars, error, listeners, emitted, sessions, streams, batches, coinVars, disposals>>

\* sendTransactionHex(txHex): blockchain.sendTransaction
SendTransactionHex ==
    /\ state = "ready"
    /\ Invoked < MaxCalls
    /\ ops' = Append(ops, GuardedCall("sendTransactionHex", error, Len(emitted)))
    /\ requests' = requests + ops'[Len(ops')].sent
    /\ UNCHANGED <<ctorVars, error, listeners, emitted, sessions, streams, batches, coinVars, disposals>>

\* The answers the backend can give to one request.
Replies(kind) ==
    IF kind = "loadTransaction" THEN {"value", "badhex", "reject"}
    ELSE {"value", "reject"}

\* The code after the await: the answer is returned, or its failure thrown.
Settle(kind, reply) ==
    CASE reply = "reject" -> [ pc |-> "failed", thrown |-> BackendRejection ]
      [] reply = "badhex" /\ kind = "loadTransaction" ->
                             [ pc |-> "failed", thrown |-> ParseFailure ]
      [] OTHER            -> [ pc |-> "ok", thrown |-> NoError ]

\* The backend answers a pending request and the call resumes.
BackendReply(i, reply) ==
    /\ ops[i].pc = "await"
    /\ reply \in Replies(ops[i].kind)
    /\ LET r == Settle(ops[i].kind, reply)
       IN  ops' = [ ops EXCEPT ![i].pc = r.pc, ![i].thrown = r.thrown ]
    /\ UNCHANGED <<ctorVars, error, listeners, emitted, sessions, streams, batches, requests, coinVars, disposals>>

\* ---------------------------------------------------------- loadTransactions
\* Mutant of PromiseAll: waits for every fetch and keeps the successful ones.
PromiseAllPartial(b) ==
    IF b.pc # "await" THEN b
    ELSE IF \A j \in DOMAIN b.sub : b.sub[j].pc # "await"
      THEN [ b EXCEPT !.pc = "ok",
                      !.result = SelectSeq(b.ids, LAMBDA id : b.sub[id].pc = "ok") ]
    ELSE b

\* Promise.all over the fetches: rejected with the first rejection (b.first is
\* the fetch that was rejected first), resolved with every value once every
\* fetch has resolved; settled once.
PromiseAll(b) ==
    IF b.pc # "await" THEN b
    ELSE IF b.first # 0
      THEN [ b EXCEPT !.pc = "failed", !.thrown = b.sub[b.first].thrown ]
    ELSE IF \A j \in DOMAIN b.sub : b.sub[j].pc = "ok"
      THEN [ b EXCEPT !.pc = "ok", !.result = b.ids ]
    ELSE b

\* txs.map(id => this.loadTransaction(id))
MapLoadTransaction(ids, err, n) ==
    [ j \in DOMAIN ids |-> GuardedCall("loadTransaction", err, n) ]

RECURSIVE SumSent(_)
SumSent(q) == IF q = <<>> THEN 0 ELSE Head(q).sent + SumSent(Tail(q))

\* loadTransactions(txs), up to its return: the guard, then the fetches are
\* started; the promise handed out is pending, whatever the list.
BatchCall(ids, err, n) ==
    IF Fatal(err)
      THEN [ ids |-> ids, sub |-> <<>>, pc |-> "failed", thrown |-> err,
             result |-> <<>>, seen |-> n, sent |-> 0, errDuring |-> FALSE,
             first |-> 0 ]
      ELSE LET sub == MapLoadTransaction(ids, err, n)
           IN  [ ids |-> ids, sub |-> sub, pc |-> "await",
                 thrown |-> NoError, result |-> <<>>, seen |-> n,
                 sent |-> SumSent(sub), errDuring |-> FALSE, first |-> 0 ]

LoadTransactions(ids) ==
    /\ state = "ready"
    /\ Invoked < MaxCalls
    /\ Fetched(batches) + Len(ids) <= MaxIds
    /\ LET b == BatchCall(ids, error, Len(emitted))
       IN  /\ batches' = Append(batches, b)
           /\ requests' = requests + b.sent
    /\ UNCHANGED <<ctorVars, error, listeners, emitted, sessions, streams, ops, coinVars, disposals>>

\* The backend answers one fetch of a batch and that loadTransaction call
\* resumes; the promise of the batch is not settled yet.
BatchReply(i, j, reply) ==
    /\ batches[i].sub[j].pc = "await"
    /\ LET r == Settle("loadTransaction", reply)
       IN  batches' = [ batches EXCEPT
             ![i].sub[j].pc = r.pc,
             ![i].sub[j].thrown = r.thrown,
             ![i].first = IF @ = 0 /\ r.pc = "failed" THEN j ELSE @ ]
    /\ UNCHANGED <<ctorVars, error, listeners, emitted, sessions, streams, ops, requests, coinVars, disposals>>

\* The promise loadTransactions returned settles, in a later turn of the job
\* queue than the fetch that decided it (or than the call, for an empty list).
BatchSettle(i) ==
    /\ batches[i].pc = "await"
    /\ PromiseAll(batches[i]).pc # "await"
    /\ batches' = [ batches EXCEPT ![i] = PromiseAll(@) ]
    /\ UNCHANGED <<ctorVars, error, listeners, emitted, sessions, streams, ops, requests, coinVars, disposals>>

\* ---------------------------------------------------------------- loadCoinInfo
\* coinInfo.zcash
ZcashOf(ci) == IF ci = "zec" THEN "true" ELSE "false"

\* getCoinInfoByHash(hash, networkInfo): the entry of the known-network
\* table with that genesis hash, or none.
GetCoinInfoByHash(hash) ==
    CASE hash = "h-btc" -> "btc"
      [] hash = "h-zec" -> "zec"
      [] OTHER          -> NoCoin

\* loadCoinInfo(coinInfo): no guard; the call awaits the socket first.
LoadCoinInfo(ci) ==
    /\ state = "ready"
    /\ Len(coins) < MaxCoinCalls
    /\ coins' = Append(coins, [ arg |-> ci, pc |-> "socket", thrown |-> NoError,
                                coin |-> ci, hash |-> "none", wrote |-> FALSE,
                                over |-> NoCoin ])
    /\ UNCHANGED <<ctorVars, error, listeners, emitted, sessions, streams, ops,
                   batches, requests, zcash, stored, disposals>>

\* Line 89: this.blockchain.zcash = coinInfo.zcash, and the call returns.
SetVars(c, ci) ==
    [ c EXCEPT !.pc = "done", !.coin = ci, !.wrote = TRUE, !.over = stored ]

\* Line 77: await this.blockchain.socket.promise, then socket.send(getInfo).
CoinSocket(i, ok) ==
    /\ coins[i].pc = "socket"
    /\ IF ok
         THEN /\ coins' = [ coins EXCEPT ![i].pc = "getInfo" ]
              /\ requests' = requests + 1
         ELSE /\ coins' = [ coins EXCEPT ![i].pc = "failed",
                                         ![i].thrown = BackendRejection ]
              /\ UNCHANGED requests
    /\ UNCHANGED <<ctorVars, error, listeners, emitted, sessions, streams, ops,
                   batches, zcash, stored, disposals>>

\* Lines 78-81: the network info arrives; with a descriptor the variables are
\* set, without one the genesis block hash is looked up.
CoinGetInfo(i, ok) ==
    /\ coins[i].pc = "getInfo"
    /\ IF ~ok
         THEN /\ coins' = [ coins EXCEPT ![i].pc = "failed",
                                         ![i].thrown = BackendRejection ]
              /\ UNCHANGED <<requests, zcash, stored>>
         ELSE IF coins[i].arg # NoCoin
           THEN /\ coins' = [ coins EXCEPT ![i] = SetVars(@, coins[i].arg) ]
                /\ zcash' = ZcashOf(coins[i].arg)
                /\ stored' = coins[i].arg
                /\ UNCHANGED requests
           ELSE /\ coins' = [ coins EXCEPT ![i].pc = "hash" ]
                /\ requests' = requests + 1
                /\ UNCHANGED <<zcash, stored>>
    /\ UNCHANGED <<ctorVars, error, listeners, emitted, sessions, streams, ops,
                   batches, disposals>>

\* Mutant of NotFound: the missing descriptor goes unnoticed.
NotFoundNever(ci) == FALSE

\* if (!coinInfo)
NotFound(ci) == ci = NoCoin

\* Lines 81-89: the genesis hash arrives (or the lookup fails); the table
\* is searched and the variables set, or the call throws.
CoinHash(i, h) ==
    /\ coins[i].pc = "hash"
    /\ IF h = "reject"
         THEN /\ coins' = [ coins EXCEPT ![i].pc = "failed",
                                         ![i].thrown = BackendRejection ]
              /\ UNCHANGED <<zcash, stored>>
         ELSE LET ci == GetCoinInfoByHash(h)
              IN  IF NotFound(ci)
                    THEN /\ coins' = [ coins EXCEPT ![i].pc = "failed",
                                                    ![i].hash = h,
                                                    ![i].thrown = UnknownNetwork ]
                         /\ UNCHANGED <<zcash, stored>>
                    ELSE /\ coins' = [ coins EXCEPT
                                         ![i] = SetVars([ @ EXCEPT !.hash = h ], ci) ]
                         /\ zcash' = ZcashOf(ci)
                         /\ stored' = ci
    /\ UNCHANGED <<ctorVars, error, listeners, emitted, sessions, streams, ops,
                   batches, requests, disposals>>

\* --------------------------------------------------------------------- dispose
\* Mutant of Dispose: disposal resets the coordinator's error.
DisposeResets ==
    /\ state = "ready"
    /\ disposals' = TRUE
    /\ error' = NoError
    /\ UNCHANGED <<ctorVars, listeners, emitted, sessions, streams, ops,
                   batches, requests, coinVars>>

\* dispose() { }
Dispose ==
    /\ state = "ready"
    /\ disposals' = TRUE
    /\ UNCHANGED <<ctorVars, error, listeners, emitted, sessions, streams, ops,
                   batches, requests, coinVars>>

\* ------------------------------------------------------------ specification
Init ==
    /\ state = "new"
    /\ args = <<>>
    /\ options = <<>>
    /\ ctorThrown = NoError
    /\ created = {}
    /\ error = NoError
    /\ listeners = <<>>
    /\ emitted = <<>>
    /\ sessions = <<>>
    /\ streams = <<>>
    /\ ops = <<>>
    /\ batches = <<>>
    /\ requests = 0
    /\ coins = <<>>
    /\ zcash = "unset"
    /\ stored = NoCoin
    /\ disposals = FALSE

NextDiscovery ==
    \/ \E u \in SeqsUpTo(Urls, MaxUrls) : Constructor(u)
    \/ \E e \in Errors : BackendError(e)
    \/ LoadAccountInfo
    \/ \E i \in DOMAIN sessions : EngineProgress(i)
    \/ \E i \in DOMAIN sessions, ok \in BOOLEAN : EngineEnd(i, ok)
    \/ \E i \in DOMAIN sessions : CallDisposer(i)
    \/ \E i \in DOMAIN sessions : ResumeLoadAccountInfo(i)
    \/ MonitorAccountActivity
    \/ \E i \in DOMAIN streams : CallerDisposeStream(i)

SpecDiscovery == Init /\ [][NextDiscovery]_vars

NextChain ==
    \/ \E u \in SeqsUpTo(Urls, MaxUrls) : Constructor(u)
    \/ \E e \in Errors : BackendError(e)
    \/ LoadTransaction
    \/ LoadCurrentHeight
    \/ SendTransaction
    \/ SendTransactionHex
    \/ \E i \in DOMAIN ops, r \in {"value", "badhex", "reject"} : BackendReply(i, r)
    \/ \E ids \in IdLists : LoadTransactions(ids)
    \/ \E i \in DOMAIN batches :
         \E j \in DOMAIN batches[i].sub, r \in Replies("loadTransaction") :
            BatchReply(i, j, r)
    \/ \E i \in DOMAIN batches : BatchSettle(i)

SpecChain == Init /\ [][NextChain]_vars

NextCoin ==
    \/ \E u \in SeqsUpTo(Urls, MaxUrls) : Constructor(u)
    \/ \E e \in Errors : BackendError(e)
    \/ \E ci \in CoinInfos \cup {NoCoin} : LoadCoinInfo(ci)
    \/ \E i \in DOMAIN coins, ok \in BOOLEAN : CoinSocket(i, ok)
    \/ \E i \in DOMAIN coins, ok \in BOOLEAN : CoinGetInfo(i, ok)
    \/ \E i \in DOMAIN coins, h \in Hashes \cup {"reject"} : CoinHash(i, h)
    \/ Dispose

SpecCoin == Init /\ [][NextCoin]_vars

\* Every operation of the coordinator.
Next ==
    \/ \E u \in SeqsUpTo(Urls, MaxUrls) : Constructor(u)
    \/ \E e \in Errors : BackendError(e)
    \/ LoadAccountInfo
    \/ \E i \in DOMAIN sessions : EngineProgress(i)
    \/ \E i \in DOMAIN sessions, ok \in BOOLEAN : EngineEnd(i, ok)
    \/ \E i \in DOMAIN sessions : CallDisposer(i)
    \/ \E i \in DOMAIN sessions : ResumeLoadAccountInfo(i)
    \/ MonitorAccountActivity
    \/ \E i \in DOMAIN streams : CallerDisposeStream(i)
    \/ LoadTransaction
    \/ LoadCurrentHeight
    \/ SendTransaction
    \/ SendTransactionHex
    \/ \E i \in DOMAIN ops, r \in {"value", "badhex", "reject"} : BackendReply(i, r)
    \/ \E ids \in IdLists : LoadTransactions(ids)
    \/ \E i \in DOMAIN batches :
         \E j \in DOMAIN batches[i].sub, r \in Replies("loadTransaction") :
            BatchReply(i, j, r)
    \/ \E i \in DOMAIN batches : BatchSettle(i)
    \/ \E ci \in CoinInfos \cup {NoCoin} : LoadCoinInfo(ci)
    \/ \E i \in DOMAIN coins, ok \in BOOLEAN : CoinSocket(i, ok)
    \/ \E i \in DOMAIN coins, ok \in BOOLEAN : CoinGetInfo(i, ok)
    \/ \E i \in DOMAIN coins, h \in Hashes \cup {"reject"} : CoinHash(i, h)
    \/ Dispose

Spec == Init /\ [][Next]_vars
\* ------------------------------------------------------------------ claims
\* C1: after the channel's first error e, every gated operation invoked later
\* fails with e and sends nothing to the backend or the engine.
C1_GatedFailWithFirstError ==
    /\ \A i \in DOMAIN sessions :
         sessions[i].seen >= 1 =>
           /\ sessions[i].pc = "failed" /\ ~sessions[i].started
           /\ sessions[i].thrown = emitted[1]
    /\ \A i \in DOMAIN streams :
         streams[i].seen >= 1 =>
           ~streams[i].started /\ streams[i].thrown = emitted[1]
    /\ \A i \in DOMAIN ops :
         ops[i].seen >= 1 =>
           ops[i].pc = "failed" /\ ops[i].sent = 0 /\ ops[i].thrown = emitted[1]
    /\ \A i \in DOMAIN batches :
         batches[i].seen >= 1 =>
           /\ batches[i].pc = "failed" /\ batches[i].sent = 0
           /\ batches[i].thrown = emitted[1]

\* C2: first-error-wins: the fatal-error field, once set, equals the first
\* error the channel emitted.
C2_FirstErrorWins ==
    IF emitted = <<>> THEN error = NoError ELSE error = emitted[1]

\* The terminal events of a session that C3 names: a snapshot returned, or a
\* failure through caller cancellation or a backend error.
Terminal(s) ==
    \/ s.pc = "returned"
    \/ s.pc = "failed" /\ s.started /\ s.thrown \in Errors \cup {Interrupted}

\* C3: once a session's call has returned a snapshot or failed through a
\* cancellation, the progress callback is never invoked again for it.
C3_NoProgressAfterTerminal ==
    \A i \in DOMAIN sessions :
      Terminal(sessions[i]) => ~sessions[i].relayedAfterEnd

\* C3 witness: a call has ended while its stream could still have emitted.
C3_Witness ==
    \E i \in DOMAIN sessions :
      /\ Terminal(sessions[i])
      /\ Len(sessions[i].relayed) >= 1
      /\ sessions[i].emittedP < MaxProgress
      /\ sessions[i].engineDone

\* C4: a backend error e emitted while a session is open cancels it with e:
\* the call fails with e and never returns a snapshot, whatever the engine
\* does afterwards.
C4_ErrorWhileOpenCancels ==
    \A i \in DOMAIN sessions :
      sessions[i].openErr # NoError =>
        /\ sessions[i].ending = "rejected"
        /\ sessions[i].reason = sessions[i].openErr
        /\ sessions[i].pc # "returned"
        /\ sessions[i].pc = "failed" => sessions[i].thrown = sessions[i].openErr

\* C4 witness: the engine completed after the error, and the call failed.
C4_Witness ==
    \E i \in DOMAIN sessions :
      /\ sessions[i].openErr # NoError
      /\ sessions[i].engineDone
      /\ sessions[i].pc = "failed"

\* C5: the disposer invoked during a discovery cancels the session with
\* 'Interrupted by user', the call fails with exactly that reason, and no
\* progress event is relayed afterwards.
C5_DisposerInterrupts ==
    \A i \in DOMAIN sessions :
      sessions[i].userOpen =>
        /\ sessions[i].ending = "rejected"
        /\ sessions[i].reason = Interrupted
        /\ sessions[i].pc # "returned"
        /\ sessions[i].pc = "failed" => sessions[i].thrown = Interrupted
        /\ ~sessions[i].relayedAfterUser

\* C5 witness: a discovery that had made progress was interrupted and failed.
C5_Witness ==
    \E i \in DOMAIN sessions :
      /\ sessions[i].userOpen
      /\ sessions[i].pc = "failed"
      /\ Len(sessions[i].relayed) >= 1
      /\ sessions[i].emittedP < MaxProgress

\* C6: a session's error-channel handler is removed when the session ends:
\* it never runs for an ended session, and there are never more session
\* handlers attached than sessions open.
C6_SessionHandlersRemoved ==
    /\ \A i \in DOMAIN sessions : ~sessions[i].lateCancel
    /\ Cardinality({k \in DOMAIN listeners : listeners[k].kind = "discovery"})
         <= Cardinality({i \in DOMAIN sessions :
                           sessions[i].started /\ sessions[i].ending = "pending"})

\* C7: every discovery session and every activity stream is torn down at
\* most once, however often it is disposed.
C7_TeardownAtMostOnce ==
    /\ \A i \in DOMAIN sessions : sessions[i].teardowns <= 1
    /\ \A i \in DOMAIN streams : streams[i].teardowns <= 1

\* C7 witness: a stream disposed by its caller and by the error handler.
C7_Witness ==
    \E i \in DOMAIN streams :
      /\ streams[i].callerCalls >= 1
      /\ streams[i].disposeCalls > streams[i].callerCalls
      /\ streams[i].teardowns = 1

\* C8: a chain-data call that was awaiting the backend when the fatal error
\* was set fails with a backend error; it never completes successfully.
C8_InFlightFail ==
    /\ \A i \in DOMAIN ops :
         (ops[i].errDuring /\ ops[i].pc # "await") =>
           ops[i].pc = "failed" /\ ops[i].thrown \in Errors
    /\ \A i \in DOMAIN batches :
         (batches[i].errDuring /\ batches[i].pc # "await") =>
           batches[i].pc = "failed" /\ batches[i].thrown \in Errors

\* C9: construction with an empty endpoint list fails with the construction
\* error and creates nothing and attaches no handler.
C9_EmptyEndpointsFail ==
    (state # "new" /\ args = <<>>) =>
      /\ state = "threw"
      /\ ctorThrown = BACKEND_NO_URL
      /\ options = <<>>
      /\ created = {}
      /\ listeners = <<>>

\* C9 witness: the constructor was called with no endpoint.
C9_Witness == state # "new" /\ args = <<>>

\* C10: loadTransactions is fail-fast: once a fetch has failed the call never
\* succeeds and returns no partial list, and when it settles it fails with the
\* failure of the fetch that failed first, without waiting for the others; it
\* succeeds only when every fetch has succeeded, with every transaction.
C10_FailFastAggregate ==
    \A i \in DOMAIN batches :
      LET b == batches[i]
      IN  /\ (\E j \in DOMAIN b.sub : b.sub[j].pc = "failed") =>
               /\ b.pc \in {"await", "failed"}
               /\ b.result = <<>>
               /\ b.first \in DOMAIN b.sub
               /\ b.pc = "failed" =>
                    b.sub[b.first].pc = "failed" /\ b.thrown = b.sub[b.first].thrown
          /\ b.pc = "ok" =>
               /\ Len(b.sub) = Len(b.ids)
               /\ \A j \in DOMAIN b.sub : b.sub[j].pc = "ok"
               /\ b.result = b.ids

\* C10 witness: of a batch of several ids one fetch succeeded, one failed.
C10_Witness ==
    \E i \in DOMAIN batches :
      /\ Len(batches[i].ids) >= 2
      /\ \E j \in DOMAIN batches[i].sub : batches[i].sub[j].pc = "ok"
      /\ \E j \in DOMAIN batches[i].sub : batches[i].sub[j].pc = "failed"
      /\ batches[i].pc = "failed"

\* C11: once a loadCoinInfo call has stored a descriptor, no later call with
\* a conflicting descriptor succeeds and overwrites the network state.
C11_NoSilentSwitch ==
    \A i \in DOMAIN coins :
      coins[i].pc = "done" => coins[i].over \in {NoCoin, coins[i].coin}

\* C12: a gated operation contacts the backend or the engine only after some
\* loadCoinInfo call has completed successfully.
C12_NetworkFirst ==
    ( \/ \E i \in DOMAIN sessions : sessions[i].started
      \/ \E i \in DOMAIN streams : streams[i].started
      \/ \E i \in DOMAIN ops : ops[i].sent > 0
      \/ \E i \in DOMAIN batches : batches[i].sent > 0 )
    => \E i \in DOMAIN coins : coins[i].pc = "done"

\* C13: completion wins: a session that has completed stays completed, and
\* its call never fails, whatever backend error is delivered afterwards.
C13_CompletionWins ==
    [][ \A i \in DOMAIN sessions :
          sessions[i].ending = "resolved" =>
            /\ sessions'[i].ending = "resolved"
            /\ sessions'[i].pc \in {"await", "returned"} ]_vars

\* C13 witness: a backend error reached a completed session, whose call
\* returned the snapshot.
C13_Witness ==
    \E i \in DOMAIN sessions :
      /\ sessions[i].ending = "resolved"
      /\ sessions[i].lateCancel
      /\ sessions[i].pc = "returned"

\* C14: the fatal-error field starts unset and, once set, is never cleared.
C14_ErrorNeverCleared ==
    /\ error = NoError
    /\ [][ error # NoError => error' # NoError ]_vars

\* C14 witness: the error is set; a further error, a loadCoinInfo call and
\* dispose() have come after it, and a gated operation has ended: a session
\* the error cancelled whose call failed, or a call the guard rejected.
C14_Witness ==
    /\ error # NoError
    /\ Len(emitted) >= 2
    /\ disposals
    /\ \E i \in DOMAIN coins : coins[i].pc = "done" /\ coins[i].wrote
    /\ \E i \in DOMAIN sessions : sessions[i].pc = "failed"

\* C15: loadCoinInfo without a descriptor fails with the unknown-network
\* error when the genesis hash is in no table entry, and stores nothing.
C15_UnknownNetworkFails ==
    \A i \in DOMAIN coins :
      ( /\ coins[i].arg = NoCoin
        /\ coins[i].hash # "none"
        /\ GetCoinInfoByHash(coins[i].hash) = NoCoin )
      => /\ coins[i].pc = "failed"
         /\ coins[i].thrown = UnknownNetwork
         /\ ~coins[i].wrote

\* C15 witness: a backend reported a genesis hash that is in no entry.
C15_Witness ==
    \E i \in DOMAIN coins :
      /\ coins[i].arg = NoCoin
      /\ coins[i].hash = "h-other"
      /\ coins[i].pc = "failed"

\* C16: a loadAccountInfo call that passes the guard hands the disposer to
\* the caller's sink exactly once, before any progress is relayed and before
\* the call ends.
C16_DisposerRegisteredOnce ==
    \A i \in DOMAIN sessions :
      sessions[i].started => sessions[i].disposerSet = 1

\* C16 witness: a session that has relayed progress and been cancelled by
\* its caller.
C16_Witness ==
    \E i \in DOMAIN sessions :
      /\ sessions[i].started
      /\ Len(sessions[i].relayed) >= 1
      /\ sessions[i].userCalls >= 1

\* C17: the events handed to the progress callback are the events the session
\* emitted, each once and in emission order.
C17_RelayInOrder ==
    \A i \in DOMAIN sessions :
      sessions[i].relayed = [ j \in 1..sessions[i].emittedP |-> j ]

\* C17 witness: several events were relayed.
C17_Witness ==
    \E i \in DOMAIN sessions : Len(sessions[i].relayed) >= 2

\* C18: after a backend error no activity stream returned earlier is open.
C18_ErrorDisposesStreams ==
    \A i \in DOMAIN streams :
      (streams[i].started /\ Len(emitted) > streams[i].seen) => streams[i].disposed

\* C18 witness: a stream its caller never disposed has been disposed.
C18_Witness ==
    \E i \in DOMAIN streams :
      /\ streams[i].started
      /\ streams[i].callerCalls = 0
      /\ streams[i].disposed

\* C19: when a backend error has cancelled a session, the fatal-error field
\* is set, so the guard rejects a gated operation invoked after the failure.
C19_FatalSetOnCancel ==
    \A i \in DOMAIN sessions :
      (sessions[i].started /\ sessions[i].ending = "rejected"
         /\ sessions[i].reason \in Errors) => Fatal(error)

\* C19 witness: a call has failed with a backend error.
C19_Witness ==
    \E i \in DOMAIN sessions :
      /\ sessions[i].started
      /\ sessions[i].pc = "failed"
      /\ sessions[i].thrown \in Errors

\* C20: a loadAccountInfo or monitorAccountActivity call the guard rejects
\* starts nothing, calls neither the sink nor the progress callback, and
\* attaches no handler to the error channel.
C20_RejectedCallsDoNothing ==
    /\ \A i \in DOMAIN sessions :
         ~sessions[i].started =>
           /\ sessions[i].disposerSet = 0
           /\ sessions[i].relayed = <<>>
           /\ sessions[i].emittedP = 0
           /\ sessions[i].cancels = 0
           /\ \A k \in DOMAIN listeners :
                ~(listeners[k].kind = "discovery" /\ listeners[k].id = i)
    /\ \A i \in DOMAIN streams :
         ~streams[i].started =>
           /\ streams[i].disposeCalls = 0
           /\ \A k \in DOMAIN listeners :
                ~(listeners[k].kind = "monitor" /\ listeners[k].id = i)

\* C20 witness: the guard has rejected a loadAccountInfo call.
C20_Witness ==
    \E i \in DOMAIN sessions :
      ~sessions[i].started /\ sessions[i].pc = "failed"
====
